---- MODULE Spec2Model ----
(***************************************************************************)
(* Model of the container lifecycle driver of cube (package task, final    *)
(* revision of task.go): the Docker driver's Run and its four staged       *)
(* operations ImagePull, ContainerCreate, ContainerStart and ContainerLogs *)
(* against a container runtime whose answers are nondeterministic.         *)
(*                                                                         *)
(* Every call on d.Client is split into the moment it is issued and the    *)
(* moment it returns, so that other drivers and the caller's cancellation  *)
(* can interleave with a stage that is in flight.                          *)
(***************************************************************************)
EXTENDS Integers, Sequences, FiniteSets, TLC

\* ---------------------------------------------------------------- bounds
\* Driver instances (one per task) sharing one runtime.
Drivers == {"d1", "d2"}

\* The drivers whose Task the worker of the model owns and moves through its
\* lifecycle.
Tasks == {"d1"}

\* Container ids the runtime can assign.
IDs == {"abc123", "xyz"}

\* Top-level operations the callers start, over all drivers.
MaxOps == 3

\* Chunks of log output StdCopy forwards before the stream ends.
MaxChunks == 1

\* ---------------------------------------------------------------- errors
\* A Go error value: the texts fmt.Errorf put in front (outermost first) and
\* the innermost error of the chain.  Every wrapper has the same dynamic
\* type, *fmt.wrapError; only the innermost error is a value errors.Is can
\* be asked about.
NoError == [msgs |-> <<>>, cause |-> "nil"]

TransportError == [msgs |-> <<>>, cause |-> "Transport"]

\* context.Canceled, what a client call or a stream read bound to a cancelled
\* context fails with.
Canceled == [msgs |-> <<>>, cause |-> "Canceled"]

\* fmt.Errorf(msg + ": %w", err)
Wrap(msg, err) == [msgs |-> <<msg>> \o err.msgs, cause |-> err.cause]

\* What a caller learns from an error without reading its text: the dynamic
\* types along the Unwrap chain (one *fmt.wrapError per wrapper) and the
\* innermost error.
Kind(err) == [wrappers |-> Len(err.msgs), cause |-> err.cause]

\* errors.Is(err, target) for a target that is an innermost error.
ErrorsIs(err, target) == err.cause = target.cause

\* ------------------------------------------------------------ DockerResult
DockerResult(err, action, id, res) ==
    [Error |-> err, Action |-> action, ContainerID |-> id, Result |-> res]

\* The zero DockerResult, also the value of the variable while no Run has
\* returned.
NoResult == DockerResult(NoError, "", "", "")

\* ---------------------------------------------------------------- contexts
\* Run builds its own context.
RunCtx == "background"

\* Variant: a staged operation that drops its caller's context for a fresh
\* background context.
StageCtxBackground(ctx) == "background"

\* The staged operations use the context their caller hands them.
StageCtx(ctx) == ctx

\* ------------------------------------------------------------------ State
\* Variant: the const block with Failed declared before Completed.
StateDeclFailedFirst ==
    <<"Pending", "Scheduled", "Running", "Failed", "Completed">>

\* The const block of State, in declaration order.
StateDecl == <<"Pending", "Scheduled", "Running", "Completed", "Failed">>

\* The value iota gives the named constant: its position in the block,
\* counted from 0.
Ordinal(name) == (CHOOSE i \in DOMAIN StateDecl : StateDecl[i] = name) - 1

Pending == Ordinal("Pending")

Scheduled == Ordinal("Scheduled")

Running == Ordinal("Running")

Completed == Ordinal("Completed")

Failed == Ordinal("Failed")

States == {Pending, Scheduled, Running, Completed, Failed}

\* ------------------------------------------------------------------- Task
\* The zero time.Time, the value of a timestamp that was never set.
ZeroTime == 0

\* Keys and values of the port maps of a Task.
Ports == {"80/tcp"}

HostPorts == {"8080", "9090"}

\* A Task as the caller builds it: State Pending, timestamps unset, and its
\* two maps, which a Go struct holds by reference.
NewTask(d) ==
    [State |-> Pending, StartTime |-> ZeroTime, FinishTime |-> ZeroTime,
     ExposedPorts |-> <<d, "ExposedPorts">>,
     PortBindings |-> <<d, "PortBindings">>]

\* TaskEvent{State: state, Timestamp: now, Task: t}: the Task field is a
\* struct value, so the fields of t are copied, the map references among them.
NewTaskEvent(state, now, t) == [State |-> state, Timestamp |-> now, Task |-> t]

\* ------------------------------------------------------------------ Config
\* math.Pow(10, 9)
NanoPerCpu == 1000000000

\* Config.Cpu values: float64 values num/den with den a power of two, on
\* which the float64 product with 10^9 is exact.
CpuShares ==
    {[num |-> n, den |-> k] : n \in 0..2, k \in {1, 2, 1024}}

\* Config.Memory values, in bytes.
Memories == {0, 1073741824}

\* Variant: the quota rounded up instead of truncated.
NanoCPUsRoundedUp(cpu) ==
    cpu.num * (NanoPerCpu \div cpu.den)
        + (cpu.num * (NanoPerCpu % cpu.den) + cpu.den - 1) \div cpu.den

\* int64(d.Config.Cpu * math.Pow(10, 9)): the product, truncated.  Written
\* as num * (10^9 div den) + (num * (10^9 mod den)) div den, which is the
\* integer part of num * 10^9 / den for num >= 0.
NanoCPUs(cpu) ==
    cpu.num * (NanoPerCpu \div cpu.den)
        + (cpu.num * (NanoPerCpu % cpu.den)) \div cpu.den

\* The Config of Example_fullTaskConfig, with the given Cpu and Memory.
ConfigWith(cpu, memory) ==
    [Name |-> "redis-cache", Image |-> "redis:latest",
     Env |-> <<"REDIS_PASSWORD=secret">>, ExposedPorts |-> {"6379/tcp"},
     Cpu |-> cpu, Memory |-> memory, RestartPolicy |-> "always"]

DefaultConfig == ConfigWith([num |-> 1, den |-> 1], 1073741824)

Configs == {ConfigWith(c, m) : c \in CpuShares, m \in Memories}

buildContainerConfig(c) ==
    [Image |-> c.Image, Tty |-> FALSE, Env |-> c.Env,
     ExposedPorts |-> c.ExposedPorts]

\* Variant: the memory limit converted from bytes to MB on the way.
buildHostConfigInMB(c) ==
    [RestartPolicy |-> [Name |-> c.RestartPolicy],
     Resources |-> [Memory |-> c.Memory \div 1048576,
                    NanoCPUs |-> NanoCPUs(c.Cpu)],
     PublishAllPorts |-> TRUE]

buildHostConfig(c) ==
    [RestartPolicy |-> [Name |-> c.RestartPolicy],
     Resources |-> [Memory |-> c.Memory, NanoCPUs |-> NanoCPUs(c.Cpu)],
     PublishAllPorts |-> TRUE]

\* The arguments of d.Client.ContainerCreate(ctx, config, hostConfig, nil,
\* nil, d.Config.Name).
CreateArgs(c) ==
    [config |-> buildContainerConfig(c), hostConfig |-> buildHostConfig(c),
     name |-> c.Name]

VARIABLES
    op,           \* per driver: the operation its caller has in progress
    pc,           \* per driver: the call in flight, or "idle" / "returned"
    ContainerID,  \* per driver: the field d.ContainerID
    containerID,  \* per driver: the containerID local / argument in use
    result,       \* per driver: the DockerResult the last Run returned
    retErr,       \* per driver: the error a staged operation returned
    retID,        \* per driver: the id ContainerCreate returned
    calls,        \* per driver: calls of the operation in progress, in order
    cancelled,    \* per driver: the caller's context has been cancelled
    cancelledAt,  \* per driver: the call in flight when it was cancelled
    containers,   \* the runtime: id -> "absent" | "created" | "running"
    pullStream,   \* per driver: the pull reader: "none" | "open" | "closed",
                  \* or "closed twice" / "closed unopened" after a bad Close
    logStream,    \* per driver: the log reader, likewise
    logChunks,    \* per driver: chunks StdCopy has written to the sinks
    nops          \* operations started so far

VARIABLES
    Config,       \* per driver: the field d.Config
    created,      \* per driver: the arguments the operation in progress gave
                  \* to the client's ContainerCreate (empty before)
    task,         \* per driver: the Task it realizes, as its owner holds it
    events,       \* per driver: the TaskEvents of its task, in order
    seen,         \* per driver, per event: what the event's Task showed when
                  \* the event was created
    maps,         \* the heap: map reference -> contents of the map
    clock,        \* time.Now()
    attempt       \* per driver: the last transition asked of its task

driverVars == <<op, pc, ContainerID, containerID, result, retErr, retID, calls,
                cancelled, cancelledAt, containers, pullStream, logStream,
                logChunks, nops>>

taskVars == <<task, events, seen, maps, clock, attempt>>

vars == <<op, pc, ContainerID, containerID, result, retErr, retID, calls,
          cancelled, cancelledAt, containers, pullStream, logStream,
          logChunks, nops, Config, created, task, events, seen, maps, clock,
          attempt>>

\* One call: what was called, with which context and container id, how it came
\* back ("pending" while in flight) and the container id it returned.
Call(name, ctx, id) ==
    [call |-> name, ctx |-> ctx, id |-> id, out |-> "pending", ret |-> ""]

Outcome(err) == IF err = NoError THEN "ok" ELSE "err"

\* The call in flight came back with err.
MarkLast(cs, err) == [cs EXCEPT ![Len(cs)].out = Outcome(err)]

\* The call in flight came back with a container id and no error.
MarkRet(cs, id) == [cs EXCEPT ![Len(cs)].out = "ok", ![Len(cs)].ret = id]

\* ctx.Done() is closed: context.Background() never is.
CtxDone(d, ctx) == ctx = "caller" /\ cancelled[d]

\* What the runtime can answer to the call in flight: anything while the
\* context is live, the context's error once it is cancelled.
Answers(d) ==
    IF CtxDone(d, calls[d][Len(calls[d])].ctx)
    THEN {Canceled}
    ELSE {NoError, TransportError}

\* What the reference of a map stands for, for every map of every Task.
MapRefs == {<<d, f>> : d \in Drivers, f \in {"ExposedPorts", "PortBindings"}}

\* No transition has been asked yet.
NoAttempt == [from |-> Pending, to |-> Pending, accepted |-> FALSE, by |-> "none"]

\* The Tasks as their callers build them, with no event yet.
TaskInit ==
    /\ task = [d \in Drivers |-> NewTask(d)]
    /\ events = [d \in Drivers |-> <<>>]
    /\ seen = [d \in Drivers |-> <<>>]
    /\ maps = [r \in MapRefs |-> [k \in Ports |-> "8080"]]
    /\ clock = 1
    /\ attempt = [d \in Drivers |-> NoAttempt]

\* The drivers as constructed, before any call.
DriverInit ==
    /\ op = [d \in Drivers |-> "none"]
    /\ pc = [d \in Drivers |-> "idle"]
    /\ ContainerID = [d \in Drivers |-> ""]
    /\ containerID = [d \in Drivers |-> ""]
    /\ result = [d \in Drivers |-> NoResult]
    /\ retErr = [d \in Drivers |-> NoError]
    /\ retID = [d \in Drivers |-> ""]
    /\ calls = [d \in Drivers |-> <<>>]
    /\ cancelled = [d \in Drivers |-> FALSE]
    /\ cancelledAt = [d \in Drivers |-> "none"]
    /\ containers = [i \in IDs |-> "absent"]
    /\ pullStream = [d \in Drivers |-> "none"]
    /\ logStream = [d \in Drivers |-> "none"]
    /\ logChunks = [d \in Drivers |-> 0]
    /\ nops = 0
    /\ created = [d \in Drivers |-> <<>>]

Init ==
    /\ DriverInit
    /\ Config = [d \in Drivers |-> DefaultConfig]
    /\ TaskInit

\* ------------------------------------------------- what the code makes of errors
\* ImagePull, the pull request failed.
ImagePullRequestFailed(err) == Wrap("image pull failed", err)

\* Variant: ImagePull that drops the error of io.Copy, as the first revision
\* of Run did.
ImagePullCopiedDropped(err) == NoError

\* ImagePull, after the request succeeded: the error of io.Copy is returned
\* as it is (nil when the copy succeeded).
ImagePullCopied(err) == err

ContainerCreateFailed(err) == Wrap("create container failed", err)

ContainerStartFailed(err) == Wrap("start container failed", err)

\* Variant: ContainerLogs that logs a failed attach and returns nil.
ContainerLogsRequestFailedSwallowed(err) == NoError

\* ContainerLogs, the attach request failed.
ContainerLogsRequestFailed(err) == Wrap("failed to get container logs", err)

\* ContainerLogs, after the attach succeeded: the error of StdCopy is
\* returned as it is.
ContainerLogsCopied(err) == err

\* ------------------------------------------------------------ Run's control
\* Run's test of the error a stage returned: err != nil.
StageFailed(err) == err # NoError

\* Variant: Run that does not test the error of ImagePull.
RunNextIgnoresPull(stage, err) ==
    CASE stage = "pull"   -> "create"
      [] stage = "create" -> IF StageFailed(err) THEN "returned" ELSE "start"
      [] stage = "start"  -> "returned"

\* Variant: Run that does not test the error of ContainerCreate.
RunNextIgnoresCreate(stage, err) ==
    CASE stage = "pull"   -> IF StageFailed(err) THEN "returned" ELSE "create"
      [] stage = "create" -> "start"
      [] stage = "start"  -> "returned"

\* Variant: Run that tries ContainerStart again when it failed.
RunNextRetriesStart(stage, err) ==
    CASE stage = "pull"   -> IF StageFailed(err) THEN "returned" ELSE "create"
      [] stage = "create" -> IF StageFailed(err) THEN "returned" ELSE "start"
      [] stage = "start"  -> IF StageFailed(err) THEN "start" ELSE "returned"

\* Variant: Run that creates again, in a loop, while ContainerCreate fails.
RunNextRetriesCreate(stage, err) ==
    CASE stage = "pull"   -> IF StageFailed(err) THEN "returned" ELSE "create"
      [] stage = "create" -> IF StageFailed(err) THEN "create" ELSE "start"
      [] stage = "start"  -> "returned"

\* Variant: Run that pulls again when ImagePull failed.
RunNextRetriesPull(stage, err) ==
    CASE stage = "pull"   -> IF StageFailed(err) THEN "pull" ELSE "create"
      [] stage = "create" -> IF StageFailed(err) THEN "returned" ELSE "start"
      [] stage = "start"  -> "returned"

\* Variant: Run that goes on to attach to the logs of the container it
\* started, as the first revision of Run did.
RunNextAttachesLogs(stage, err) ==
    CASE stage = "pull"   -> IF StageFailed(err) THEN "returned" ELSE "create"
      [] stage = "create" -> IF StageFailed(err) THEN "returned" ELSE "start"
      [] stage = "start"  -> IF StageFailed(err) THEN "returned" ELSE "logs"

\* Where Run goes when the stage ("pull", "create" or "start") returned err.
RunNext(stage, err) ==
    CASE stage = "pull"   -> IF StageFailed(err) THEN "returned" ELSE "create"
      [] stage = "create" -> IF StageFailed(err) THEN "returned" ELSE "start"
      [] stage = "start"  -> "returned"

\* The DockerResult of each return statement of Run.
RunPullFailed(err) == DockerResult(Wrap("failed to pull image", err), "", "", "")

\* Variant: a create failure reported with the action tag already set.
RunCreateFailedTagged(err) ==
    DockerResult(Wrap("failed to create container", err), "start", "", "")

RunCreateFailed(err) == DockerResult(Wrap("failed to create container", err), "", "", "")

RunStartFailed(err) == DockerResult(Wrap("failed to start container", err), "", "", "")

\* Variant: a success Result that leaves the container id out.
RunSucceededNoID(id) == DockerResult(NoError, "start", "", "success")

RunSucceeded(id) == DockerResult(NoError, "start", id, "success")

\* What Run returns when it returns after the stage returned err; id is
\* Run's local containerID.
RunResult(stage, err, id) ==
    CASE stage = "pull"   -> RunPullFailed(err)
      [] stage = "create" -> RunCreateFailed(err)
      [] stage = "start"  -> IF StageFailed(err) THEN RunStartFailed(err)
                                                 ELSE RunSucceeded(id)

\* The client call each stage issues first.
StageCall == [pull |-> "ImagePull", create |-> "ContainerCreate",
              start |-> "ContainerStart", logs |-> "ContainerLogs"]

\* ---------------------------------------------------------- action fragments
\* reader.Close() / logs.Close() on a stream in state s.
Close(s) ==
    CASE s = "open"   -> "closed"
      [] s = "closed" -> "closed twice"
      [] OTHER        -> "closed unopened"

\* Variant: the stream closed after a copy that succeeded only.
DeferredCloseOnSuccess(s, err) == IF err = NoError THEN Close(s) ELSE s

\* defer reader.Close() / defer logs.Close(): registered once the request
\* succeeded, it runs as the operation returns, whatever the copy returned.
DeferredClose(s, err) == Close(s)

Upd(f, d, v) == [f EXCEPT ![d] = v]

InFlight == {"pull", "pull_copy", "create", "start", "logs", "logs_copy"}

\* The context of the call in flight.
CurCtx(d) == calls[d][Len(calls[d])].ctx

\* The container ids the caller of driver d holds: what ContainerCreate or Run
\* last returned to it and the driver's ContainerID field.
KnownIDs(d) == {retID[d], result[d].ContainerID, ContainerID[d]} \ {""}

\* What the operation of d has given to the client's ContainerCreate once it
\* has issued the call c: ContainerCreate builds the two configs from
\* d.Config and passes them on.
Passed(d, c) ==
    IF c.call = "ContainerCreate" THEN <<CreateArgs(Config[d])>> ELSE <<>>

\* Variant: a start that keeps the id the driver already holds, if any.
RecordStartedKeepsFirst(owned, d, id) ==
    [owned EXCEPT ![d] = IF @ = "" THEN id ELSE @]

\* Variant: a start that records the empty id.
RecordStartedDropsID(owned, d, id) == [owned EXCEPT ![d] = ""]

\* Variant: the started id kept in one variable that all drivers share.
RecordStartedShared(owned, d, id) == [x \in DOMAIN owned |-> id]

\* d.ContainerID = containerID, in ContainerStart.
RecordStarted(owned, d, id) == [owned EXCEPT ![d] = id]

\* The caller of driver d starts operation o, whose first call is c.
Begin(d, o, p, c, id) ==
    /\ pc[d] \in {"idle", "returned"}
    /\ nops < MaxOps
    /\ nops' = nops + 1
    /\ op' = Upd(op, d, o)
    /\ pc' = Upd(pc, d, p)
    /\ calls' = Upd(calls, d, <<c>>)
    /\ containerID' = Upd(containerID, d, id)
    /\ result' = Upd(result, d, NoResult)
    /\ retErr' = Upd(retErr, d, NoError)
    /\ retID' = Upd(retID, d, "")
    /\ cancelled' = Upd(cancelled, d, FALSE)
    /\ cancelledAt' = Upd(cancelledAt, d, "none")
    /\ pullStream' = Upd(pullStream, d, "none")
    /\ logStream' = Upd(logStream, d, "none")
    /\ logChunks' = Upd(logChunks, d, 0)
    /\ created' = Upd(created, d, Passed(d, c))
    /\ UNCHANGED <<ContainerID, containers, Config, taskVars>>

\* Run returns r.
ReturnRun(d, r, cs) ==
    /\ pc' = Upd(pc, d, "returned")
    /\ result' = Upd(result, d, r)
    /\ calls' = Upd(calls, d, cs)
    /\ UNCHANGED <<retErr, retID, Config, created, taskVars>>

\* A staged operation called on its own returns (id, err).
ReturnStage(d, id, err, cs) ==
    /\ pc' = Upd(pc, d, "returned")
    /\ retErr' = Upd(retErr, d, err)
    /\ retID' = Upd(retID, d, id)
    /\ calls' = Upd(calls, d, cs)
    /\ UNCHANGED <<result, Config, created, taskVars>>

\* The next call c is issued.
Issue(d, p, c, cs) ==
    /\ pc' = Upd(pc, d, p)
    /\ calls' = Upd(calls, d, Append(cs, c))
    /\ created' = IF c.call = "ContainerCreate"
                  THEN Upd(created, d, Passed(d, c)) ELSE created
    /\ UNCHANGED <<result, retErr, retID, Config, taskVars>>

\* A stage called by Run, or by the caller itself, returned (id, err): Run
\* goes on to its next stage, passing its local containerID to
\* ContainerStart, or returns; a stage called on its own returns to the
\* caller.
StageReturns(d, stage, id, err, cs) ==
    IF op[d] = "Run"
    THEN IF RunNext(stage, err) = "returned"
         THEN ReturnRun(d, RunResult(stage, err, id), cs)
         ELSE Issue(d, RunNext(stage, err),
                    Call(StageCall[RunNext(stage, err)], StageCtx(RunCtx),
                         IF RunNext(stage, err) = "start" THEN id ELSE ""),
                    cs)
    ELSE ReturnStage(d, IF stage = "create" THEN id ELSE "", err, cs)

\* ------------------------------------------------------------------ Run
\* Run is entered: it takes its context and calls d.ImagePull, which issues
\* the pull request.
Run(d) ==
    /\ d \in Drivers
    /\ Begin(d, "Run", "pull", Call("ImagePull", StageCtx(RunCtx), ""), "")

\* d.ImagePull(ctx) called by the caller itself.
ImagePull(d) ==
    /\ d \in Drivers
    /\ Begin(d, "ImagePull", "pull",
             Call("ImagePull", StageCtx("caller"), ""), "")

\* d.Client.ImagePull returns: an error, which ImagePull wraps and returns,
\* or the reader, which ImagePull starts to copy to d.Writer.
ClientImagePullReturns(d) ==
    /\ pc[d] = "pull"
    /\ \E a \in Answers(d) :
         IF a # NoError
         THEN /\ UNCHANGED pullStream
              /\ StageReturns(d, "pull", containerID[d],
                              ImagePullRequestFailed(a), MarkLast(calls[d], a))
         ELSE /\ pullStream' = Upd(pullStream, d, "open")
              /\ Issue(d, "pull_copy", Call("io.Copy", CurCtx(d), ""),
                       MarkLast(calls[d], a))
    /\ UNCHANGED <<op, ContainerID, containerID, cancelled, cancelledAt,
                   containers, logStream, logChunks, nops>>

\* io.Copy(d.Writer, reader) returns; the deferred reader.Close() runs as
\* ImagePull returns.
IoCopyReturns(d) ==
    /\ pc[d] = "pull_copy"
    /\ \E a \in Answers(d) :
         /\ pullStream' = Upd(pullStream, d, DeferredClose(pullStream[d], a))
         /\ StageReturns(d, "pull", containerID[d], ImagePullCopied(a),
                         MarkLast(calls[d], a))
    /\ UNCHANGED <<op, ContainerID, containerID, cancelled, cancelledAt,
                   containers, logStream, logChunks, nops>>

\* d.ContainerCreate(ctx) called by the caller itself.
ContainerCreate(d) ==
    /\ d \in Drivers
    /\ Begin(d, "ContainerCreate", "create",
             Call("ContainerCreate", StageCtx("caller"), ""), "")

\* d.Client.ContainerCreate returns: an error, and ContainerCreate returns
\* ("", wrapped error); or the id of a container that now exists in the
\* runtime, and ContainerCreate returns (id, nil).
ClientContainerCreateReturns(d) ==
    /\ pc[d] = "create"
    /\ \/ \E a \in Answers(d) \ {NoError} :
            /\ UNCHANGED containers
            /\ containerID' = Upd(containerID, d, "")
            /\ StageReturns(d, "create", "", ContainerCreateFailed(a),
                            MarkLast(calls[d], a))
       \/ /\ NoError \in Answers(d)
          /\ \E id \in {i \in IDs : containers[i] = "absent"} :
               /\ containers' = [containers EXCEPT ![id] = "created"]
               /\ containerID' = Upd(containerID, d, id)
               /\ StageReturns(d, "create", id, NoError, MarkRet(calls[d], id))
    /\ UNCHANGED <<op, ContainerID, cancelled, cancelledAt, pullStream,
                   logStream, logChunks, nops>>

\* d.ContainerStart(ctx, id) called by the caller itself, with an id it holds.
ContainerStart(d, id) ==
    /\ id \in KnownIDs(d)
    /\ Begin(d, "ContainerStart", "start",
             Call("ContainerStart", StageCtx("caller"), id), id)

\* d.Client.ContainerStart returns: an error, and ContainerStart returns it
\* wrapped; or the container is running, and ContainerStart records its id
\* in d.ContainerID and returns nil.
ClientContainerStartReturns(d) ==
    /\ pc[d] = "start"
    /\ \/ \E a \in Answers(d) \ {NoError} :
            /\ UNCHANGED <<containers, ContainerID>>
            /\ StageReturns(d, "start", containerID[d],
                            ContainerStartFailed(a), MarkLast(calls[d], a))
       \/ /\ NoError \in Answers(d)
          /\ containerID[d] \in IDs
          /\ containers[containerID[d]] # "absent"
          /\ containers' = [containers EXCEPT ![containerID[d]] = "running"]
          /\ ContainerID' = RecordStarted(ContainerID, d, containerID[d])
          /\ StageReturns(d, "start", containerID[d], NoError,
                          MarkLast(calls[d], NoError))
    /\ UNCHANGED <<op, containerID, cancelled, cancelledAt, pullStream,
                   logStream, logChunks, nops>>

\* -------------------------------------------------------------- ContainerLogs
\* d.ContainerLogs(ctx, id) is entered by the caller, with an id it holds,
\* and issues the attach request.
ContainerLogs(d, id) ==
    /\ id \in KnownIDs(d)
    /\ Begin(d, "ContainerLogs", "logs",
             Call("ContainerLogs", StageCtx("caller"), id), id)

\* d.Client.ContainerLogs returns: an error, which ContainerLogs wraps and
\* returns, or the stream, which ContainerLogs starts to copy to the sinks.
ClientContainerLogsReturns(d) ==
    /\ pc[d] = "logs"
    /\ \/ \E a \in Answers(d) \ {NoError} :
            /\ UNCHANGED logStream
            /\ ReturnStage(d, "", ContainerLogsRequestFailed(a),
                           MarkLast(calls[d], a))
       \/ /\ NoError \in Answers(d)
          /\ containers[containerID[d]] # "absent"
          /\ logStream' = Upd(logStream, d, "open")
          /\ Issue(d, "logs_copy", Call("StdCopy", CurCtx(d), containerID[d]),
                   MarkLast(calls[d], NoError))
    /\ UNCHANGED <<op, ContainerID, containerID, cancelled, cancelledAt,
                   containers, pullStream, logChunks, nops>>

\* StdCopy reads one more chunk of the stream and writes it to the sinks.
StdCopyReads(d) ==
    /\ pc[d] = "logs_copy"
    /\ ~CtxDone(d, CurCtx(d))
    /\ logChunks[d] < MaxChunks
    /\ logChunks' = Upd(logChunks, d, logChunks[d] + 1)
    /\ UNCHANGED <<op, pc, ContainerID, containerID, result, retErr, retID,
                   calls, cancelled, cancelledAt, containers, pullStream,
                   logStream, nops, Config, created, taskVars>>

\* StdCopy returns (end of stream, or a failed read or write); the deferred
\* logs.Close() runs as ContainerLogs returns what StdCopy returned.
StdCopyReturns(d) ==
    /\ pc[d] = "logs_copy"
    /\ \E a \in Answers(d) :
         /\ logStream' = Upd(logStream, d, DeferredClose(logStream[d], a))
         /\ ReturnStage(d, "", ContainerLogsCopied(a), MarkLast(calls[d], a))
    /\ UNCHANGED <<op, ContainerID, containerID, cancelled, cancelledAt,
                   containers, pullStream, logChunks, nops>>

\* ------------------------------------------------------------------ caller
\* The caller cancels the context it holds for driver d while an operation
\* of d is in flight.
Cancel(d) ==
    /\ pc[d] \in InFlight
    /\ ~cancelled[d]
    /\ cancelled' = Upd(cancelled, d, TRUE)
    /\ cancelledAt' = Upd(cancelledAt, d, pc[d])
    /\ UNCHANGED <<op, pc, ContainerID, containerID, result, retErr, retID,
                   calls, containers, pullStream, logStream, logChunks, nops,
                   Config, created, taskVars>>

Next ==
    \E d \in Drivers :
        \/ Run(d)
        \/ ImagePull(d)
        \/ ClientImagePullReturns(d)
        \/ IoCopyReturns(d)
        \/ ContainerCreate(d)
        \/ ClientContainerCreateReturns(d)
        \/ \E id \in IDs : ContainerStart(d, id)
        \/ ClientContainerStartReturns(d)
        \/ \E id \in IDs : ContainerLogs(d, id)
        \/ ClientContainerLogsReturns(d)
        \/ StdCopyReads(d)
        \/ StdCopyReturns(d)
        \/ Cancel(d)

Spec == Init /\ [][Next]_vars

\* ------------------------------------------------------------------ Worker
\* The owner of the Tasks (package worker): it runs the driver of a scheduled
\* task, turns the DockerResult into the task's next State and keeps the
\* TaskEvents.

\* Variant: a transition function that takes any change of State.
ValidStateTransitionAnyChange(cur, next) == cur # next

\* The transition function: Pending -> Scheduled -> Running -> Completed,
\* and Failed from every State that is not terminal.
ValidStateTransition(cur, next) ==
    \/ cur = Pending /\ next = Scheduled
    \/ cur = Scheduled /\ next = Running
    \/ cur = Running /\ next = Completed
    \/ cur \in {Pending, Scheduled, Running} /\ next = Failed

\* Variant: a transition that stamps FinishTime as soon as the task runs.
ApplyTransitionStampsEarly(t, next, now) ==
    [t EXCEPT !.State = next,
              !.StartTime = IF next = Running THEN now ELSE @,
              !.FinishTime = IF next \in {Running, Completed, Failed}
                             THEN now ELSE @]

\* The Task after an accepted transition: the worker writes State, StartTime
\* when the task starts to run and FinishTime when it reaches a terminal
\* State.
ApplyTransition(t, next, now) ==
    [t EXCEPT !.State = next,
              !.StartTime = IF next = Running THEN now ELSE @,
              !.FinishTime = IF next \in {Completed, Failed} THEN now ELSE @]

\* The State the worker asks for when Run returned r for a task.
NextState(cur, r) == IF r.Error # NoError THEN Failed ELSE Running

\* What a reader of the Task value t sees: its fields, and the contents of
\* the maps its map fields refer to.
Deref(t) ==
    [State |-> t.State, StartTime |-> t.StartTime, FinishTime |-> t.FinishTime,
     ExposedPorts |-> maps[t.ExposedPorts],
     PortBindings |-> maps[t.PortBindings]]

\* The transition to next is asked of the task of d: when the transition
\* function accepts it, the Task is updated and a TaskEvent holding a copy of
\* the Task is appended; when not, it is rejected and nothing changes.
Transition(d, next, by) ==
    LET cur == task[d].State
        ok == ValidStateTransition(cur, next)
        t == ApplyTransition(task[d], next, clock)
    IN  /\ attempt' = Upd(attempt, d, [from |-> cur, to |-> next,
                                       accepted |-> ok, by |-> by])
        /\ IF ok
           THEN /\ task' = Upd(task, d, t)
                /\ events' = Upd(events, d,
                                 Append(events[d], NewTaskEvent(next, clock, t)))
                /\ seen' = Upd(seen, d, Append(seen[d], Deref(t)))
                /\ clock' = clock + 1
           ELSE UNCHANGED <<task, events, seen, clock>>
        /\ UNCHANGED maps

\* The placement layer, the exit watch or any other caller asks for a
\* transition of the task of d.
RequestTransition(d, next) ==
    /\ next \in States
    /\ Transition(d, next, "caller")
    /\ UNCHANGED <<driverVars, Config, created>>

\* The worker runs the driver of a scheduled task.
RunTask(d) ==
    /\ task[d].State = Scheduled
    /\ pc[d] = "idle"
    /\ Run(d)

\* The worker turns the DockerResult of the Run of a scheduled task into the
\* task's next State.
RecordResult(d) ==
    /\ op[d] = "Run" /\ pc[d] = "returned"
    /\ task[d].State = Scheduled
    /\ Transition(d, NextState(task[d].State, result[d]), "driver")
    /\ UNCHANGED <<driverVars, Config, created>>

\* The holder of the Task writes t.ExposedPorts[k] = v or
\* t.PortBindings[k] = v.
SetPort(d, f, k, v) ==
    /\ maps[task[d][f]][k] # v
    /\ maps' = [maps EXCEPT ![task[d][f]][k] = v]
    /\ UNCHANGED <<driverVars, Config, created, task, events, seen, clock,
                   attempt>>

WorkerNext ==
    \E d \in Tasks :
        \/ \E next \in States : RequestTransition(d, next)
        \/ RunTask(d)
        \/ ClientImagePullReturns(d)
        \/ IoCopyReturns(d)
        \/ ClientContainerCreateReturns(d)
        \/ ClientContainerStartReturns(d)
        \/ RecordResult(d)
        \/ \E f \in {"ExposedPorts", "PortBindings"}, k \in Ports,
              v \in HostPorts : SetPort(d, f, k, v)

WorkerSpec == Init /\ [][WorkerNext]_vars

\* ------------------------------------------------------------ container spec
\* Drivers constructed with any of the Configs, on which the callers call
\* ContainerCreate.
ConfigInit ==
    /\ DriverInit
    /\ Config \in [Drivers -> Configs]
    /\ TaskInit

ConfigNext ==
    \E d \in Drivers :
        \/ ContainerCreate(d)
        \/ ClientContainerCreateReturns(d)

ConfigSpec == ConfigInit /\ [][ConfigNext]_vars

\* -------------------------------------------------------------- Runs only
\* The callers call nothing but Run, any number of times on each driver, and
\* every call Run makes to the runtime returns.
RunsNext ==
    \E d \in Drivers :
        \/ Run(d)
        \/ ClientImagePullReturns(d)
        \/ IoCopyReturns(d)
        \/ ClientContainerCreateReturns(d)
        \/ ClientContainerStartReturns(d)

EveryCallReturns ==
    \A d \in Drivers :
        /\ WF_vars(ClientImagePullReturns(d))
        /\ WF_vars(IoCopyReturns(d))
        /\ WF_vars(ClientContainerCreateReturns(d))
        /\ WF_vars(ClientContainerStartReturns(d))

RunsSpec == Init /\ [][RunsNext]_vars /\ EveryCallReturns

\* ================================================================== properties
\* Run of driver d has returned.
Returned(d) == op[d] = "Run" /\ pc[d] = "returned"

\* How often the operation in progress has issued the call.
Count(d, name) ==
    Cardinality({i \in DOMAIN calls[d] : calls[d][i].call = name})

\* One of the named calls of the operation in progress came back with an error.
CallFailed(d, names) ==
    \E i \in DOMAIN calls[d] :
        calls[d][i].call \in names /\ calls[d][i].out = "err"

\* The named call of the operation in progress came back without error.
Succeeded(d, name) ==
    \E i \in DOMAIN calls[d] :
        calls[d][i].call = name /\ calls[d][i].out = "ok"

\* The id the runtime's ContainerCreate returned to the operation in progress.
CreatedID(d) ==
    LET i == CHOOSE i \in DOMAIN calls[d] : calls[d][i].call = "ContainerCreate"
    IN  calls[d][i].ret

\* The runtime succeeded at the pull request, the copy of the pull output,
\* create and start.
RunStagesOk(d) ==
    /\ Succeeded(d, "ImagePull") /\ Succeeded(d, "io.Copy")
    /\ Succeeded(d, "ContainerCreate") /\ Succeeded(d, "ContainerStart")
    /\ ~CallFailed(d, {"ImagePull", "io.Copy", "ContainerCreate", "ContainerStart"})

\* The runtime's ContainerCreate succeeded and its ContainerStart then failed.
CreateOkStartFailed(d) ==
    /\ Succeeded(d, "ContainerCreate")
    /\ CallFailed(d, {"ContainerStart"})

\* C1: in a Run whose ImagePull stage failed (the pull request or the copy of
\* its output), ContainerCreate and ContainerStart are never invoked: their
\* call counts stay 0.
C1_PullFailureStopsRun ==
    \A d \in Drivers :
        (op[d] = "Run" /\ CallFailed(d, {"ImagePull", "io.Copy"}))
            => Count(d, "ContainerCreate") = 0 /\ Count(d, "ContainerStart") = 0

C1_Witness ==
    \E d \in Drivers :
        Returned(d) /\ CallFailed(d, {"ImagePull"}) /\ Len(calls[d]) = 1

\* C2: within one Run the calls come in the order pull, create, start:
\* ContainerCreate only after the pull request and the copy succeeded,
\* ContainerStart only after ContainerCreate succeeded and with exactly the id
\* that ContainerCreate returned.
C2_StageOrder ==
    \A d \in Drivers :
        op[d] = "Run" =>
            \A i \in DOMAIN calls[d] :
                /\ (i = 1) = (calls[d][i].call = "ImagePull")
                /\ calls[d][i].call = "ContainerCreate" =>
                       /\ i = 3
                       /\ calls[d][1].out = "ok"
                       /\ calls[d][2].call = "io.Copy" /\ calls[d][2].out = "ok"
                /\ calls[d][i].call = "ContainerStart" =>
                       /\ i = 4
                       /\ calls[d][3].call = "ContainerCreate"
                       /\ calls[d][3].out = "ok"
                       /\ calls[d][3].ret \in IDs
                       /\ calls[d][i].id = calls[d][3].ret

C2_Witness ==
    \E d \in Drivers :
        /\ op[d] = "Run" /\ pc[d] = "start"
        /\ calls[d][4].call = "ContainerStart" /\ calls[d][4].id = "xyz"

\* C3: when the runtime succeeds at pull, create and start and ContainerCreate
\* returned id c, Run returns {Action "start", ContainerID c, Result
\* "success", Error nil}.
C3_HappyPath ==
    \A d \in Drivers :
        (Returned(d) /\ RunStagesOk(d))
            => result[d] = [Error |-> NoError, Action |-> "start",
                            ContainerID |-> CreatedID(d), Result |-> "success"]

C3_Witness ==
    \E d \in Drivers :
        Returned(d) /\ RunStagesOk(d) /\ CreatedID(d) = "abc123"

\* C4 (as claimed): when ContainerCreate returned id c and ContainerStart then
\* failed, the Result of Run carries ContainerID c together with a non-nil
\* error.
C4_ContainerIDKeptOnStartFailure ==
    \A d \in Drivers :
        (Returned(d) /\ CreateOkStartFailed(d))
            => result[d].ContainerID = CreatedID(d) /\ result[d].Error # NoError

\* C5: Run returns Error nil exactly when the pull request, the copy of the
\* pull output, create and start all succeeded; no stage failure is swallowed.
C5_ErrorNilIffAllStagesOk ==
    \A d \in Drivers :
        Returned(d) => ((result[d].Error = NoError) <=> RunStagesOk(d))

C5_Witness ==
    \E d \in Drivers :
        Returned(d) /\ CallFailed(d, {"io.Copy"}) /\ result[d].Error # NoError

\* C6: a Result with a non-nil Error has neither Action "start" nor Result
\* "success", and its ContainerID is empty when the failing stage was
\* ImagePull or ContainerCreate.
C6_NoSuccessMarkerOnError ==
    \A d \in Drivers :
        (Returned(d) /\ result[d].Error # NoError) =>
            /\ result[d].Action # "start"
            /\ result[d].Result # "success"
            /\ CallFailed(d, {"ImagePull", "io.Copy", "ContainerCreate"})
                   => result[d].ContainerID = ""

C6_Witness ==
    \E d \in Drivers :
        /\ Returned(d) /\ CallFailed(d, {"ContainerCreate"})
        /\ result[d].Error # NoError

\* C7: when ContainerStart failed after a successful ContainerCreate, Run
\* has issued no call after that ContainerStart (no removal, no retry), and
\* the container it created is in the runtime, created and not started.
C7_NoCleanupAfterStartFailure ==
    \A d \in Drivers :
        (Returned(d) /\ CreateOkStartFailed(d)) =>
            /\ Len(calls[d]) = 4
            /\ calls[d][4].call = "ContainerStart" /\ calls[d][4].out = "err"
            /\ containers[CreatedID(d)] = "created"

C7_Witness ==
    \E d \in Drivers :
        /\ Returned(d) /\ CreateOkStartFailed(d)
        /\ containers[CreatedID(d)] = "created"
        /\ ContainerID[d] # CreatedID(d)

\* The error the returned operation of d handed to its caller.
ReturnedErr(d) == IF op[d] = "Run" THEN result[d].Error ELSE retErr[d]

\* The stage whose call failed in the operation of d.
FailedStage(d) ==
    CASE CallFailed(d, {"ImagePull", "io.Copy"})    -> "ImagePull"
      [] CallFailed(d, {"ContainerCreate"})         -> "ContainerCreate"
      [] CallFailed(d, {"ContainerStart"})          -> "ContainerStart"
      [] CallFailed(d, {"ContainerLogs", "StdCopy"}) -> "ContainerLogs"
      [] OTHER                                  -> "none"

\* C8 (as claimed): the error of a failed stage is of a kind that names the
\* stage: never the kind of a bare transport error, and two failures of
\* different stages never have the same kind.
C8_StageErrorKinds ==
    \A d1, d2 \in Drivers :
        (/\ pc[d1] = "returned" /\ FailedStage(d1) # "none"
         /\ pc[d2] = "returned" /\ FailedStage(d2) # "none") =>
            /\ Kind(ReturnedErr(d1)) # Kind(TransportError)
            /\ FailedStage(d1) # FailedStage(d2)
                   => Kind(ReturnedErr(d1)) # Kind(ReturnedErr(d2))

\* The call in flight at each position of Run.
CallAt == [pull |-> "ImagePull", pull_copy |-> "io.Copy",
           create |-> "ContainerCreate", start |-> "ContainerStart"]

\* C9 (as claimed): when the caller's context is cancelled while a stage of
\* Run is in flight, Run returns a cancellation error and the stage that was
\* in flight is the last one it issued.
C9_RunHonoursCancellation ==
    \A d \in Drivers :
        (Returned(d) /\ cancelledAt[d] # "none") =>
            /\ ErrorsIs(result[d].Error, Canceled)
            /\ calls[d][Len(calls[d])].call = CallAt[cancelledAt[d]]

\* C10: when the context given to ContainerLogs is cancelled while StdCopy is
\* reading the stream, StdCopy reads no further chunk, and the error
\* ContainerLogs returns is context.Canceled, which differs in kind from a
\* failed read of the stream and from a failed attach.
C10_LogsCancellation ==
    \A d \in Drivers :
        /\ (op[d] = "ContainerLogs" /\ pc[d] = "logs_copy" /\ cancelled[d])
               => ~ENABLED StdCopyReads(d)
        /\ (op[d] = "ContainerLogs" /\ pc[d] = "returned"
                /\ cancelledAt[d] = "logs_copy") =>
               /\ ErrorsIs(retErr[d], Canceled)
               /\ Kind(retErr[d]) # Kind(ContainerLogsCopied(TransportError))
               /\ Kind(retErr[d]) # Kind(ContainerLogsRequestFailed(TransportError))

C10_Witness ==
    \E d \in Drivers :
        /\ op[d] = "ContainerLogs" /\ pc[d] = "returned"
        /\ cancelledAt[d] = "logs_copy"
        /\ logChunks[d] >= 1

\* C11: Run never attaches to the container's logs: it issues no
\* ContainerLogs call and no StdCopy, opens no log stream, and when it returns
\* success the successful ContainerStart is the last call it made.
C11_RunNeverStreamsLogs ==
    \A d \in Drivers :
        op[d] = "Run" =>
            /\ Count(d, "ContainerLogs") = 0
            /\ Count(d, "StdCopy") = 0
            /\ logStream[d] = "none"
            /\ (pc[d] = "returned" /\ result[d].Error = NoError) =>
                   /\ calls[d][Len(calls[d])].call = "ContainerStart"
                   /\ calls[d][Len(calls[d])].out = "ok"

C11_Witness ==
    \E d \in Drivers :
        /\ Returned(d) /\ result[d].Result = "success"
        /\ containers[result[d].ContainerID] = "running"
        /\ logStream[d] = "none"

\* C12: the driver does not retry: in one Run the pull request, the copy of
\* the pull output, ContainerCreate and ContainerStart are each issued at most
\* once, whatever the runtime answers.
C12_NoRetries ==
    \A d \in Drivers :
        op[d] = "Run" =>
            \A name \in {"ImagePull", "io.Copy", "ContainerCreate",
                         "ContainerStart"} : Count(d, name) <= 1

C12_Witness ==
    \E d \in Drivers :
        /\ Returned(d) /\ CallFailed(d, {"io.Copy"})
        /\ Count(d, "ImagePull") = 1 /\ Len(calls[d]) = 2

\* The last transition asked of the task of d, when one was asked.
Asked(d) == attempt[d].by # "none"

\* C13: the transition function accepts only a move to a later ordinal or to
\* Failed and rejects every move to an earlier ordinal, so the States of the
\* events of a task never regress.
C13_TransitionsMonotonic ==
    \A d \in Drivers :
        /\ (Asked(d) /\ attempt[d].accepted) =>
               (attempt[d].to > attempt[d].from \/ attempt[d].to = Failed)
        /\ (Asked(d) /\ attempt[d].to < attempt[d].from) => ~attempt[d].accepted
        /\ \A i \in DOMAIN events[d] :
               i < Len(events[d]) => events[d][i].State < events[d][i + 1].State

C13_Witness ==
    \E d \in Drivers :
        /\ attempt[d].from = Completed /\ attempt[d].to = Scheduled
        /\ ~attempt[d].accepted
        /\ task[d].State = Completed
        /\ Len(events[d]) = 3

\* C14: the State the worker computes from the outcome of Run: from Scheduled
\* to Running exactly when ContainerCreate and ContainerStart both succeeded,
\* to Failed exactly when a stage of Run failed, and never to Scheduled.
C14_NextStateFromResult ==
    \A d \in Drivers :
        attempt[d].by = "driver" =>
            /\ attempt[d].from = Scheduled
            /\ attempt[d].to # Scheduled
            /\ (attempt[d].to = Running) <=>
                   (Succeeded(d, "ContainerCreate") /\ Succeeded(d, "ContainerStart"))
            /\ (attempt[d].to = Failed) <=>
                   CallFailed(d, {"ImagePull", "io.Copy", "ContainerCreate",
                                  "ContainerStart"})
            /\ attempt[d].accepted
            /\ task[d].State = attempt[d].to

C14_Witness ==
    \E d \in Drivers :
        /\ attempt[d].by = "driver" /\ attempt[d].to = Running
        /\ task[d].State = Running /\ ContainerID[d] \in IDs

\* C15: FinishTime is unset while the State is Pending, Scheduled or Running,
\* and once it is set the State is Completed or Failed; this holds of the
\* Task and of every copy of it in a TaskEvent.
FinishTimeConsistent(t) ==
    /\ t.State \in {Pending, Scheduled, Running} => t.FinishTime = ZeroTime
    /\ t.FinishTime # ZeroTime => t.State \in {Completed, Failed}

C15_FinishTimeOnlyWhenTerminal ==
    \A d \in Drivers :
        /\ FinishTimeConsistent(task[d])
        /\ \A i \in DOMAIN events[d] : FinishTimeConsistent(events[d][i].Task)

C15_Witness ==
    \E d \in Drivers :
        /\ task[d].State = Completed
        /\ task[d].FinishTime # ZeroTime
        /\ task[d].StartTime # ZeroTime
        /\ task[d].FinishTime > task[d].StartTime

\* C16 (as claimed): the Task stored in a TaskEvent shows for ever what it
\* showed when the event was created, whatever is done to the original Task
\* afterwards: its State, its timestamps and the contents of its ExposedPorts
\* and PortBindings maps.
C16_EventSnapshotUnchanged ==
    \A d \in Drivers :
        \A i \in DOMAIN events[d] : Deref(events[d][i].Task) = seen[d][i]

\* C17: drivers running concurrently against one runtime do not interfere: a
\* step in which driver d neither issues a call nor gets an answer leaves the
\* Result, the returned error and id and the ContainerID of d as they are,
\* and the ContainerID a driver holds is never the ContainerID of another.
C17_NoInterference ==
    /\ [](\A d1, d2 \in Drivers :
             (d1 # d2 /\ ContainerID[d1] # "") => ContainerID[d1] # ContainerID[d2])
    /\ [][\A d \in Drivers :
             (pc'[d] = pc[d] /\ calls'[d] = calls[d]) =>
                 /\ result'[d] = result[d]
                 /\ ContainerID'[d] = ContainerID[d]
                 /\ retErr'[d] = retErr[d]
                 /\ retID'[d] = retID[d]]_vars

C17_Witness ==
    \E d1, d2 \in Drivers :
        /\ d1 # d2
        /\ Returned(d1) /\ result[d1].Result = "success"
        /\ Returned(d2) /\ result[d2].Result = "success"
        /\ ContainerID[d1] # ContainerID[d2]

\* The HostConfig the operation of d gave to the client's ContainerCreate.
PassedHostConfig(d) == created[d][1].hostConfig

\* C18: the CPU quota in the container spec is Cpu * 10^9 truncated to an
\* integer: for Cpu = num/den it is the integer n with n <= num * 10^9 / den
\* < n + 1; Cpu 1.0 gives 1000000000 and Cpu 0.5 gives 500000000.
C18_NanoCPUs ==
    \A d \in Drivers :
        created[d] # <<>> =>
            LET cpu == Config[d].Cpu
                n == PassedHostConfig(d).Resources.NanoCPUs
            IN  /\ n * cpu.den <= cpu.num * NanoPerCpu
                /\ cpu.num * NanoPerCpu < (n + 1) * cpu.den
                /\ cpu = [num |-> 1, den |-> 1] => n = 1000000000
                /\ cpu = [num |-> 1, den |-> 2] => n = 500000000

C18_Witness ==
    \E d \in Drivers :
        /\ created[d] # <<>>
        /\ Config[d].Cpu = [num |-> 1, den |-> 1024]
        /\ PassedHostConfig(d).Resources.NanoCPUs = 976562

\* C19: the memory limit in the container spec given to the runtime's
\* ContainerCreate is Config.Memory, unchanged.
C19_MemoryPassthrough ==
    \A d \in Drivers :
        created[d] # <<>> =>
            PassedHostConfig(d).Resources.Memory = Config[d].Memory

C19_Witness ==
    \E d \in Drivers :
        /\ op[d] = "ContainerCreate" /\ pc[d] = "returned" /\ retID[d] \in IDs
        /\ Config[d].Memory = 1073741824
        /\ PassedHostConfig(d).Resources.Memory = 1073741824

\* C20: the ordinals of State are Pending 0, Scheduled 1, Running 2,
\* Completed 3, Failed 4: the lifecycle order of the States that are not
\* Failed is their numeric order, in the enumeration and in the events of
\* every task, and the two terminal States have the two largest ordinals.
C20_StateOrdinals ==
    /\ Pending = 0 /\ Scheduled = 1 /\ Running = 2 /\ Completed = 3 /\ Failed = 4
    /\ \A s \in States \ {Completed, Failed} : s < Completed /\ s < Failed
    /\ \A d \in Drivers :
           /\ task[d].State \in 0..4
           /\ \A i \in DOMAIN events[d] :
                  (i < Len(events[d]) /\ events[d][i + 1].State # Failed)
                      => events[d][i + 1].State = events[d][i].State + 1

C20_Witness ==
    \E d \in Drivers :
        /\ Len(events[d]) = 3
        /\ events[d][1].State = 1 /\ events[d][2].State = 2
        /\ events[d][3].State = 3
        /\ task[d].State = 3

\* The step is the return of the ContainerStart call in flight of driver d,
\* without error.
StartSucceeds(d) ==
    /\ pc[d] = "start"
    /\ calls'[d][Len(calls[d])].out = "ok"

\* C21: d.ContainerID is written only by a ContainerStart that succeeded,
\* which sets it to the id it started; a failed ContainerStart and every step
\* of ImagePull, ContainerCreate and ContainerLogs, successful or not, leave
\* it as it is.
C21_ContainerIDWrittenOnlyByStart ==
    [][\A d \in Drivers :
          IF StartSucceeds(d)
          THEN ContainerID'[d] = calls[d][Len(calls[d])].id
          ELSE ContainerID'[d] = ContainerID[d]]_vars

C21_Witness ==
    \E d \in Drivers :
        /\ op[d] = "ContainerStart" /\ pc[d] = "returned"
        /\ retErr[d] # NoError
        /\ ContainerID[d] \in IDs
        /\ calls[d][1].id # ContainerID[d]

\* ContainerLogs of driver d, called by its caller, has returned after the
\* attach request or the copy of the stream failed.
LogsFailed(d) ==
    /\ op[d] = "ContainerLogs" /\ pc[d] = "returned"
    /\ CallFailed(d, {"ContainerLogs", "StdCopy"})

\* C22: a failure to attach to the log stream or to read it is reported as
\* the error ContainerLogs returns and as nothing else: no failed Result
\* comes of it and the container stays as it was; and a Run whose
\* ContainerStart succeeded has made no log call and returns a Result
\* without Error.
C22_LogsFailureOnlyReturned ==
    \A d \in Drivers :
        /\ LogsFailed(d) =>
               /\ retErr[d] # NoError
               /\ result[d].Error = NoError
               /\ ContainerID[d] # "" => containers[ContainerID[d]] = "running"
        /\ (Returned(d) /\ Succeeded(d, "ContainerStart")) =>
               /\ result[d].Error = NoError
               /\ result[d].Result = "success"
               /\ Count(d, "ContainerLogs") = 0 /\ Count(d, "StdCopy") = 0

C22_Witness ==
    \E d \in Drivers :
        /\ LogsFailed(d)
        /\ CallFailed(d, {"ContainerLogs"})
        /\ retErr[d] # NoError
        /\ calls[d][1].id = ContainerID[d]
        /\ containers[ContainerID[d]] = "running"

\* Run of driver d is in progress: entered and not yet returned.
RunInProgress(d) == op[d] = "Run" /\ pc[d] # "returned"

\* C23: provided every runtime call returns, a Run that was entered returns;
\* it has a Result exactly when it has returned, it has then made at most one
\* ImagePull, one ContainerCreate and one ContainerStart call, and at no
\* time has it more than one call in flight, the one it issued last.
C23_RunTerminates ==
    /\ [](\A d \in Drivers :
             op[d] = "Run" =>
                 /\ Returned(d) <=> result[d] # NoResult
                 /\ Count(d, "ImagePull") <= 1
                 /\ Count(d, "ContainerCreate") <= 1
                 /\ Count(d, "ContainerStart") <= 1
                 /\ \A i \in DOMAIN calls[d] :
                        calls[d][i].out = "pending" =>
                            (i = Len(calls[d]) /\ ~Returned(d)))
    /\ \A d \in Drivers : RunInProgress(d) ~> Returned(d)

C23_Witness ==
    \E d \in Drivers :
        /\ Returned(d)
        /\ Count(d, "ImagePull") = 1
        /\ Count(d, "ContainerCreate") = 1
        /\ Count(d, "ContainerStart") = 1
        /\ Len(calls[d]) = 4
        /\ result[d] # NoResult
        /\ nops = MaxOps

\* The step is the return of the Run of driver d, without error.
RunSucceeds(d) ==
    /\ op[d] = "Run" /\ pc[d] # "returned"
    /\ pc'[d] = "returned"
    /\ result'[d].Error = NoError

\* C24: over any sequence of Runs on one driver, d.ContainerID is the id of
\* the container the most recent successful Run started, and empty while no
\* Run has succeeded: the return of a successful Run sets it to the id in the
\* Result, every other step (those of a failing Run among them) leaves it as
\* it is; Run makes no call but ImagePull, the copy, ContainerCreate and
\* ContainerStart, so a container that runs keeps running when a later Run
\* replaces its id.
C24_ContainerIDOfLastSuccessfulRun ==
    /\ [](\A d \in Drivers :
             /\ ContainerID[d] # "" => containers[ContainerID[d]] = "running"
             /\ \A i \in DOMAIN calls[d] :
                    calls[d][i].call \in {"ImagePull", "io.Copy",
                                          "ContainerCreate", "ContainerStart"})
    /\ [][/\ \A d \in Drivers :
                IF RunSucceeds(d)
                THEN /\ ContainerID'[d] = result'[d].ContainerID
                     /\ ContainerID'[d] \in IDs
                ELSE ContainerID'[d] = ContainerID[d]
          /\ \A i \in IDs :
                containers[i] = "running" => containers'[i] = "running"]_vars

C24_Witness ==
    \E d \in Drivers, i \in IDs :
        /\ \A e \in Drivers \ {d} : op[e] = "none"
        /\ Returned(d) /\ result[d].Error = NoError
        /\ ContainerID[d] = result[d].ContainerID
        /\ i # ContainerID[d]
        /\ containers[i] = "running"
        /\ containers[ContainerID[d]] = "running"

\* The stream s of driver d, which the request named req opens and which is
\* copied while pc is at copying, is in order: open exactly while it is
\* copied, never opened when the request failed or was not made, and closed
\* once, not more, from the return of the copy on.
StreamInOrder(d, s, req, copying) ==
    /\ s = "open" <=> pc[d] = copying
    /\ s \in {"none", "open", "closed"}
    /\ (Succeeded(d, req) /\ pc[d] # copying) => s = "closed"
    /\ ~Succeeded(d, req) => s = "none"

\* C25: every stream the driver gets from the runtime is closed when the
\* operation that opened it returns: the pull reader on every return of
\* ImagePull after a successful pull request, the log stream on every return
\* of ContainerLogs after a successful attach, a failed copy included; no
\* stream is closed twice, and none is closed when the request failed.
C25_StreamsClosedOnReturn ==
    \A d \in Drivers :
        /\ StreamInOrder(d, pullStream[d], "ImagePull", "pull_copy")
        /\ StreamInOrder(d, logStream[d], "ContainerLogs", "logs_copy")
        /\ pc[d] \in {"idle", "returned"} =>
               (pullStream[d] # "open" /\ logStream[d] # "open")

C25_Witness ==
    \E d \in Drivers :
        /\ op[d] = "ContainerLogs" /\ pc[d] = "returned"
        /\ CallFailed(d, {"StdCopy"})
        /\ logStream[d] = "closed"
        /\ \E e \in Drivers :
               /\ op[e] = "ImagePull" /\ pc[e] = "returned"
               /\ CallFailed(e, {"io.Copy"})
               /\ pullStream[e] = "closed"

====
